---- MODULE Spec2Model ----
(***************************************************************************)
(* Model of the pre-issue access token extension service                   *)
(* (src/ext-service/main.go): the /token-validation handler, the header    *)
(* scan getHeaderValue, the entitlement load loadEntitlements and main.    *)
(*                                                                         *)
(* The handler runs once per inbound request, on a goroutine of its own.   *)
(* The only state two handlers share is the file entitlements.json, which  *)
(* each handler reads once, after it has extracted a partner identifier.   *)
(* A handler is therefore modelled in three steps: everything up to the    *)
(* read of the file (Begin), the read and parse of the file (Load), and    *)
(* everything after it (Match).                                            *)
(***************************************************************************)
EXTENDS Integers, Sequences, FiniteSets, TLC

VARIABLES
    server,            \* main: "starting", "serving" or "exited" (log.Fatal)
    versions,          \* every content entitlements.json has had; the last is on disk
    pc,                \* per worker: "idle", "load", "match", "done"
    httpReq,           \* per worker: r, the inbound *http.Request (method, body)
    req,               \* per worker: the decoded Request
    partnerID,         \* per worker: handler's local partnerID
    entitlementsData,  \* per worker: handler's local entitlementsData
    w,                 \* per worker: what the handler wrote to the ResponseWriter
    inspected,         \* per worker: getHeaderValue has been called (ghost)
    loads,             \* per worker: calls of loadEntitlements in this request (ghost)
    startVer,          \* per worker: index of the file version on disk at Begin (ghost)
    loadVer            \* per worker: index of the file version read by Load (ghost)

vars == <<server, versions, pc, httpReq, req, partnerID, entitlementsData, w,
          inspected, loads, startVer, loadVer>>

----------------------------------------------------------------------------
(* Bounds of the model *)

MaxHeaders == 2
MaxEntitlements == 2
MaxVersions == 3

SeqsUpTo(S, n) == UNION {[1..k -> S] : k \in 0..n}

----------------------------------------------------------------------------
(* Program constants *)

HeaderKey == "x-b2b-usp-partner"
StatusOK == 200
StatusBadRequest == 400
StatusMethodNotAllowed == 405
StatusInternalServerError == 500

----------------------------------------------------------------------------
(* Data: the types of main.go *)

\* type Header: a name and its values.  A name that differs from the key only
\* in letter case stands for every other name.
HeaderNames == {HeaderKey, "X-B2B-USP-Partner"}
ValueLists == { <<>>, <<"">>, <<"P1">>, <<"P2">>,
                <<"", "P1">>, <<"P1", "P2">>, <<"P2", "">> }
Header == [name : HeaderNames, value : ValueLists]
HeaderLists == SeqsUpTo(Header, MaxHeaders)

\* The fields of a Request other than event.request.additionalHeaders.
Rest1 == [actionType |-> "PRE_ISSUE_ACCESS_TOKEN", clientId |-> "c1",
          grantType |-> "authorization_code",
          scopes |-> <<"openid">>, claims |-> <<"sub">>,
          refreshToken |-> <<>>,
          allowedOperations |-> <<[op |-> "add", paths |-> <<"/accessToken/scopes/">>]>>]
Rest2 == [actionType |-> "OTHER", clientId |-> "c2",
          grantType |-> "client_credentials",
          scopes |-> <<"partner:read", "partner:view">>, claims |-> <<>>,
          refreshToken |-> <<"jti">>,
          allowedOperations |-> <<>>]

\* type Request
MkRequest(rest, headers) ==
    [actionType |-> rest.actionType,
     event |-> [request |-> [clientId |-> rest.clientId,
                             grantType |-> rest.grantType,
                             additionalHeaders |-> headers],
                accessToken |-> [scopes |-> rest.scopes, claims |-> rest.claims],
                refreshToken |-> rest.refreshToken],
     allowedOperations |-> rest.allowedOperations]

\* var req Request: the zero value
ZeroRequest ==
    [actionType |-> "",
     event |-> [request |-> [clientId |-> "", grantType |-> "",
                             additionalHeaders |-> <<>>],
                accessToken |-> [scopes |-> <<>>, claims |-> <<>>],
                refreshToken |-> <<>>],
     allowedOperations |-> <<>>]

\* The body of an inbound request: a JSON text of the Request shape, a text
\* json.Decoder rejects, or a body whose read fails.
JsonBody(rq) == [kind |-> "json", value |-> rq]
GarbageBody == [kind |-> "garbage", value |-> ZeroRequest]
UnreadableBody == [kind |-> "unreadable", value |-> ZeroRequest]

HttpRequest(method, body) == [method |-> method, body |-> body]
NoHttpRequest == HttpRequest("", UnreadableBody)

\* type Entitlement (object and constraints are never read)
Entitlement(id, type, sid, action) ==
    [entitlementId |-> id, subject |-> [type |-> type, id |-> sid], action |-> action]
Entitlements ==
    { Entitlement("e1", "partner", "P1", "read"),
      Entitlement("e2", "partner", "P1", "view"),
      Entitlement("e3", "partner", "P2", "read"),
      Entitlement("e4", "user", "P1", "admin") }

\* type EntitlementsData
EntitlementsData(es) == [entitlements |-> es]
NoEntitlementsData == EntitlementsData(<<>>)

\* The file entitlements.json: absent, not of the EntitlementsData shape, or
\* the JSON text of an EntitlementsData.
MissingFile == [kind |-> "missing", data |-> NoEntitlementsData]
CorruptFile == [kind |-> "corrupt", data |-> NoEntitlementsData]
JsonFile(es) == [kind |-> "json", data |-> EntitlementsData(es)]
Files == {MissingFile, CorruptFile}
             \cup {JsonFile(es) : es \in SeqsUpTo(Entitlements, MaxEntitlements)}

\* type OperationResponse
OperationResponse(op, path, value) == [op |-> op, path |-> path, value |-> value]

\* type Response
Response(actionStatus, operations) ==
    [actionStatus |-> actionStatus, operations |-> operations,
     failureReason |-> "", failureDescription |-> "",
     errorMessage |-> "", errorDescription |-> ""]
ZeroResponse == Response("", <<>>)

\* What a handler has written to its http.ResponseWriter.
NothingWritten ==
    [code |-> 0, contentType |-> "", kind |-> "none", text |-> "",
     response |-> ZeroResponse]
\* http.Error(w, text, code)
HttpError(text, code) ==
    [code |-> code, contentType |-> "text/plain; charset=utf-8", kind |-> "text",
     text |-> text, response |-> ZeroResponse]
\* w.Header().Set("Content-Type", ...); json.NewEncoder(w).Encode(resp)
\* (a Response holds strings only, so its marshalling cannot fail; a failed
\* write to the connection is the transport's and is left out)
JsonEncoded(resp) ==
    [code |-> StatusOK, contentType |-> "application/json;charset=UTF-8",
     kind |-> "json", text |-> "", response |-> resp]

----------------------------------------------------------------------------
(* The functions of main.go *)

\* json.NewDecoder(r.Body).Decode(&req)
DecodeAcceptsAll(body) == [err |-> FALSE, req |-> body.value]
Decode(body) ==
    IF body.kind = "json"
    THEN [err |-> FALSE, req |-> body.value]
    ELSE [err |-> TRUE, req |-> ZeroRequest]

\* The loop of getHeaderValue, from its i-th header on.
RECURSIVE getHeaderValueFrom(_, _, _)
getHeaderValueFrom(headers, headerName, i) ==
    IF i > Len(headers)
    THEN ""
    ELSE IF headers[i].name = headerName /\ Len(headers[i].value) > 0
         THEN headers[i].value[1]
         ELSE getHeaderValueFrom(headers, headerName, i + 1)

\* A scan that passes over an entry whose first value is empty.
RECURSIVE getHeaderValueSkipEmpty(_, _, _)
getHeaderValueSkipEmpty(headers, headerName, i) ==
    IF i > Len(headers)
    THEN ""
    ELSE IF /\ headers[i].name = headerName
            /\ Len(headers[i].value) > 0
            /\ headers[i].value[1] # ""
         THEN headers[i].value[1]
         ELSE getHeaderValueSkipEmpty(headers, headerName, i + 1)
getHeaderValueNonEmpty(headers, headerName) ==
    getHeaderValueSkipEmpty(headers, headerName, 1)

\* A scan that compares names as http.Header does, in canonical case.
CanonicalName(name) == IF name = "X-B2B-USP-Partner" THEN HeaderKey ELSE name
RECURSIVE getHeaderValueFold(_, _, _)
getHeaderValueFold(headers, headerName, i) ==
    IF i > Len(headers)
    THEN ""
    ELSE IF /\ CanonicalName(headers[i].name) = CanonicalName(headerName)
            /\ Len(headers[i].value) > 0
         THEN headers[i].value[1]
         ELSE getHeaderValueFold(headers, headerName, i + 1)
getHeaderValueAnyCase(headers, headerName) ==
    getHeaderValueFold(headers, headerName, 1)

getHeaderValue(headers, headerName) == getHeaderValueFrom(headers, headerName, 1)

\* ioutil.ReadFile("entitlements.json"): the content on disk now.
ReadFileOnce(files) == files[1]
ReadFile(files) == files[Len(files)]

\* loadEntitlements, on the content ReadFile returned.
loadEntitlementsLenient(file) == [err |-> FALSE, data |-> file.data]
loadEntitlements(file) ==
    IF file.kind = "missing"
    THEN [err |-> TRUE, data |-> NoEntitlementsData]
    ELSE IF file.kind = "corrupt"
         THEN [err |-> TRUE, data |-> NoEntitlementsData]
         ELSE [err |-> FALSE, data |-> file.data]

\* fmt.Sprintf("%s:%s", a, b)
Sprintf(a, b) == a \o ":" \o b

\* The loop over entitlementsData.Entitlements, from its i-th record on, with
\* the operations appended so far.
RECURSIVE rangeEntitlements(_, _, _, _)
rangeEntitlements(entitlements, partner, i, operations) ==
    IF i > Len(entitlements)
    THEN operations
    ELSE LET entitlement == entitlements[i] IN
         IF entitlement.subject.type = "partner" /\ entitlement.subject.id = partner
         THEN rangeEntitlements(entitlements, partner, i + 1,
                  Append(operations,
                         OperationResponse("add", "/accessToken/scopes/-",
                             Sprintf(entitlement.subject.type, entitlement.action))))
         ELSE rangeEntitlements(entitlements, partner, i + 1, operations)

\* A loop that matches on the subject's id alone.
RECURSIVE rangeEntitlementsById(_, _, _, _)
rangeEntitlementsById(entitlements, partner, i, operations) ==
    IF i > Len(entitlements)
    THEN operations
    ELSE LET entitlement == entitlements[i] IN
         IF entitlement.subject.id = partner
         THEN rangeEntitlementsById(entitlements, partner, i + 1,
                  Append(operations,
                         OperationResponse("add", "/accessToken/scopes/-",
                             Sprintf(entitlement.subject.type, entitlement.action))))
         ELSE rangeEntitlementsById(entitlements, partner, i + 1, operations)
findOperationsById(rq, data, partner) ==
    rangeEntitlementsById(data.entitlements, partner, 1, <<>>)

\* A loop that leaves out a scope the token already carries.
InSeq(x, s) == \E k \in 1..Len(s) : s[k] = x
findOperationsNotGranted(rq, data, partner) ==
    SelectSeq(rangeEntitlements(data.entitlements, partner, 1, <<>>),
              LAMBDA o : ~InSeq(o.value, rq.event.accessToken.scopes))

\* "Find matching entitlements and create scopes": the operations the handler
\* builds, with req, entitlementsData and partnerID in scope.
findOperations(rq, data, partner) ==
    rangeEntitlements(data.entitlements, partner, 1, <<>>)

\* The handler's answer when partnerID == "".
noPartnerResponse == Response("SUCCESS", <<>>)

\* The handler's answer after the loop.
successResponseOrFailed(operations) ==
    IF operations = <<>>
    THEN [Response("FAILED", <<>>) EXCEPT !.failureReason = "no_entitlement"]
    ELSE Response("SUCCESS", operations)
successResponse(operations) == Response("SUCCESS", operations)

\* The handler's branch for err != nil from loadEntitlements: what it writes,
\* and whether the process goes on.
loadErrorFatal == [written |-> NothingWritten, exit |-> TRUE]
loadError ==
    [written |-> HttpError("Internal server error", StatusInternalServerError),
     exit |-> FALSE]

----------------------------------------------------------------------------
(* The state machine *)

Workers == {"w1", "w2"}

\* The inbound requests of the sequential specification.
Requests ==
    {HttpRequest("POST", JsonBody(MkRequest(Rest1, hs))) : hs \in HeaderLists}
        \cup {HttpRequest("POST", GarbageBody), HttpRequest("POST", UnreadableBody),
              HttpRequest("GET", JsonBody(MkRequest(Rest1, <<>>)))}

\* The inbound requests and the file contents of the concurrent specification.
ConcHeaderLists ==
    { <<>>,
      <<[name |-> HeaderKey, value |-> <<"P1">>]>>,
      <<[name |-> HeaderKey, value |-> <<"P2">>]>> }
ConcRequests ==
    {HttpRequest("POST", JsonBody(MkRequest(rest, hs))) :
        rest \in {Rest1, Rest2}, hs \in ConcHeaderLists}
ConcFiles ==
    { CorruptFile,
      JsonFile(<<Entitlement("e1", "partner", "P1", "read"),
                 Entitlement("e3", "partner", "P2", "read")>>),
      JsonFile(<<Entitlement("e2", "partner", "P1", "view"),
                 Entitlement("e1", "partner", "P1", "read")>>) }

Locals(worker, p, rq, pid, data, written) ==
    /\ pc' = [pc EXCEPT ![worker] = p]
    /\ req' = [req EXCEPT ![worker] = rq]
    /\ partnerID' = [partnerID EXCEPT ![worker] = pid]
    /\ entitlementsData' = [entitlementsData EXCEPT ![worker] = data]
    /\ w' = [w EXCEPT ![worker] = written]

InitWith(files) ==
    /\ server = "starting"
    /\ versions \in {<<f>> : f \in files}
    /\ pc = [x \in Workers |-> "idle"]
    /\ httpReq = [x \in Workers |-> NoHttpRequest]
    /\ req = [x \in Workers |-> ZeroRequest]
    /\ partnerID = [x \in Workers |-> ""]
    /\ entitlementsData = [x \in Workers |-> NoEntitlementsData]
    /\ w = [x \in Workers |-> NothingWritten]
    /\ inspected = [x \in Workers |-> FALSE]
    /\ loads = [x \in Workers |-> 0]
    /\ startVer = [x \in Workers |-> 0]
    /\ loadVer = [x \in Workers |-> 0]

\* main: http.ListenAndServe binds and serves, or fails and log.Fatal exits.
Main ==
    /\ server = "starting"
    /\ server' \in {"serving", "exited"}
    /\ UNCHANGED <<versions, pc, httpReq, req, partnerID, entitlementsData, w,
                   inspected, loads, startVer, loadVer>>

\* handler, from its entry to the call of loadEntitlements.
Begin(worker, r) ==
    /\ server = "serving"
    /\ pc[worker] = "idle"
    /\ httpReq' = [httpReq EXCEPT ![worker] = r]
    /\ startVer' = [startVer EXCEPT ![worker] = Len(versions)]
    /\ IF r.method # "POST"
       THEN /\ Locals(worker, "done", ZeroRequest, "", NoEntitlementsData,
                      HttpError("Method not allowed", StatusMethodNotAllowed))
            /\ UNCHANGED inspected
       ELSE IF r.body.kind = "unreadable"
       THEN /\ Locals(worker, "done", ZeroRequest, "", NoEntitlementsData,
                      HttpError("Invalid request", StatusBadRequest))
            /\ UNCHANGED inspected
       ELSE LET d == Decode(r.body) IN
            IF d.err
            THEN /\ Locals(worker, "done", ZeroRequest, "", NoEntitlementsData,
                           HttpError("Invalid request", StatusBadRequest))
                 /\ UNCHANGED inspected
            ELSE LET pid == getHeaderValue(d.req.event.request.additionalHeaders,
                                           "x-b2b-usp-partner") IN
                 /\ inspected' = [inspected EXCEPT ![worker] = TRUE]
                 /\ IF pid = ""
                    THEN Locals(worker, "done", d.req, pid, NoEntitlementsData,
                                JsonEncoded(noPartnerResponse))
                    ELSE Locals(worker, "load", d.req, pid, NoEntitlementsData,
                                NothingWritten)
    /\ UNCHANGED <<server, versions, loads, loadVer>>

\* handler: entitlementsData, err := loadEntitlements(), and the err branch.
Load(worker) ==
    /\ server = "serving"
    /\ pc[worker] = "load"
    /\ loads' = [loads EXCEPT ![worker] = @ + 1]
    /\ loadVer' = [loadVer EXCEPT ![worker] = Len(versions)]
    /\ LET l == loadEntitlements(ReadFile(versions)) IN
       IF l.err
       THEN /\ Locals(worker, "done", req[worker], partnerID[worker],
                      NoEntitlementsData, loadError.written)
            /\ server' = IF loadError.exit THEN "exited" ELSE server
       ELSE /\ Locals(worker, "match", req[worker], partnerID[worker], l.data,
                      NothingWritten)
            /\ UNCHANGED server
    /\ UNCHANGED <<versions, httpReq, inspected, startVer>>

\* handler, from the loop over the entitlements to the encoded response.
Match(worker) ==
    /\ server = "serving"
    /\ pc[worker] = "match"
    /\ LET operations == findOperations(req[worker], entitlementsData[worker],
                                        partnerID[worker]) IN
       Locals(worker, "done", req[worker], partnerID[worker],
              entitlementsData[worker], JsonEncoded(successResponse(operations)))
    /\ UNCHANGED <<server, versions, httpReq, inspected, loads, startVer, loadVer>>

\* handler returns: its locals are gone and the goroutine serves another request.
Return(worker) ==
    /\ server = "serving"
    /\ pc[worker] = "done"
    /\ Locals(worker, "idle", ZeroRequest, "", NoEntitlementsData, NothingWritten)
    /\ httpReq' = [httpReq EXCEPT ![worker] = NoHttpRequest]
    /\ inspected' = [inspected EXCEPT ![worker] = FALSE]
    /\ loads' = [loads EXCEPT ![worker] = 0]
    /\ startVer' = [startVer EXCEPT ![worker] = 0]
    /\ loadVer' = [loadVer EXCEPT ![worker] = 0]
    /\ UNCHANGED <<server, versions>>

\* The deployment replaces entitlements.json, in one step (a rename): no code
\* of the service writes the file, and a read sees one whole content.
ReplaceFile(file) ==
    /\ Len(versions) < MaxVersions
    /\ versions' = Append(versions, file)
    /\ UNCHANGED <<server, pc, httpReq, req, partnerID, entitlementsData, w,
                   inspected, loads, startVer, loadVer>>

\* One request at a time against a fixed entitlements.json.
Init == InitWith(Files)
ReceiveRequest == pc["w1"] = "idle" /\ \E r \in Requests : Begin("w1", r)
LoadStep == Load("w1")
MatchStep == Match("w1")
ReturnStep == Return("w1")
Next == Main \/ ReceiveRequest \/ LoadStep \/ MatchStep \/ ReturnStep
Spec == Init /\ [][Next]_vars

\* Concurrent requests while entitlements.json is replaced.
InitConc == InitWith(ConcFiles)
ReceiveConc ==
    \E worker \in Workers :
        pc[worker] = "idle" /\ \E r \in ConcRequests : Begin(worker, r)
LoadConc == \E worker \in Workers : Load(worker)
MatchConc == \E worker \in Workers : Match(worker)
ReturnConc == \E worker \in Workers : Return(worker)
ReplaceConc == \E file \in ConcFiles : ReplaceFile(file)
NextConc == Main \/ ReceiveConc \/ LoadConc \/ MatchConc \/ ReturnConc \/ ReplaceConc
SpecConc == InitConc /\ [][NextConc]_vars

----------------------------------------------------------------------------
(* What the properties speak of *)

Done(x) == pc[x] = "done"

\* The request of worker x carried a body of the Request shape, by POST.
Decoded(x) ==
    pc[x] # "idle" /\ httpReq[x].method = "POST" /\ httpReq[x].body.kind = "json"

\* The event's additionalHeaders, as sent.
HeadersOf(x) == httpReq[x].body.value.event.request.additionalHeaders

\* The entries named exactly x-b2b-usp-partner that carry at least one value.
KeyEntries(hs) == {i \in 1..Len(hs) : hs[i].name = HeaderKey /\ hs[i].value # <<>>}
Least(S) == CHOOSE i \in S : \A j \in S : i <= j
SelectedValue(hs) ==
    IF KeyEntries(hs) = {} THEN "" ELSE hs[Least(KeyEntries(hs))].value[1]

\* The content of entitlements.json that worker x read.
HasLoaded(x) == loadVer[x] > 0
LoadedFile(x) == versions[loadVer[x]]

\* The records of a snapshot granted to partner P, in snapshot order, each
\* mapped to its patch operation.
PartnerRecords(es, P) ==
    SelectSeq(es, LAMBDA e : e.subject.type = "partner" /\ e.subject.id = P)
ExpectedOperations(es, P) ==
    [k \in 1..Len(PartnerRecords(es, P)) |->
        [op |-> "add", path |-> "/accessToken/scopes/-",
         value |-> "partner:" \o PartnerRecords(es, P)[k].action]]

IsSuccessWith(written, operations) ==
    /\ written.code = 200
    /\ written.kind = "json"
    /\ written.response.actionStatus = "SUCCESS"
    /\ written.response.operations = operations
    /\ written.response.failureReason = ""
    /\ written.response.failureDescription = ""
    /\ written.response.errorMessage = ""
    /\ written.response.errorDescription = ""

IsInternalError(written) ==
    /\ written.code = 500
    /\ written.kind = "text"
    /\ written.response.actionStatus # "SUCCESS"
    /\ written.response.operations = <<>>

----------------------------------------------------------------------------
(* Properties *)

\* C1: an event with no entry named x-b2b-usp-partner that carries a value, or
\* whose selected value is the empty string, is answered SUCCESS with no
\* operations.
C1_NoPartnerIsSuccess ==
    \A x \in Workers :
        (Done(x) /\ Decoded(x) /\ SelectedValue(HeadersOf(x)) = "")
            => IsSuccessWith(w[x], <<>>)

\* C1 witness: the selected value is empty while a later entry of the same name
\* carries a partner, and the answer is SUCCESS with no operations.
C1_Witness ==
    \E x \in Workers :
        /\ Done(x) /\ Decoded(x)
        /\ Len(HeadersOf(x)) = 2
        /\ HeadersOf(x)[1] = [name |-> HeaderKey, value |-> <<"", "P1">>]
        /\ HeadersOf(x)[2] = [name |-> HeaderKey, value |-> <<"P1">>]
        /\ IsSuccessWith(w[x], <<>>)

\* C2 (as stated): whenever entitlements.json is unreadable or unparseable, an
\* evaluation ends with the internal-error outcome and no operation, never
\* with SUCCESS.
C2_Original ==
    \A x \in Workers :
        (Done(x) /\ Decoded(x) /\ ReadFile(versions).kind # "json")
            => IsInternalError(w[x])

\* C2 (amended): when a non-empty partner identifier was extracted and the
\* load of entitlements.json failed, the evaluation ends with the
\* internal-error outcome (HTTP 500) and no operation, never with SUCCESS.
C2_LoadFailureFailsClosed ==
    \A x \in Workers :
        (Done(x) /\ Decoded(x) /\ SelectedValue(HeadersOf(x)) # "")
            => /\ HasLoaded(x)
               /\ LoadedFile(x).kind # "json" => IsInternalError(w[x])

\* C2 witness: a partner was extracted, the file is corrupt, the answer is 500.
C2_Witness ==
    \E x \in Workers :
        /\ Done(x) /\ Decoded(x)
        /\ partnerID[x] = "P2"
        /\ HasLoaded(x) /\ LoadedFile(x) = CorruptFile
        /\ w[x].code = 500

\* C3: for a readable snapshot and an extracted partner P, the operations are,
\* in snapshot order, one {add, /accessToken/scopes/-, "partner:" + action} per
\* record with subject.type "partner" and subject.id P, and nothing else.
C3_OperationsAreTheMatches ==
    \A x \in Workers :
        (Done(x) /\ Decoded(x) /\ SelectedValue(HeadersOf(x)) # "")
            => /\ HasLoaded(x)
               /\ LoadedFile(x).kind = "json" =>
                    IsSuccessWith(w[x],
                        ExpectedOperations(LoadedFile(x).data.entitlements,
                                           SelectedValue(HeadersOf(x))))

\* C3 witness: two identical records give the same operation twice.
C3_Witness ==
    \E x \in Workers :
        /\ Done(x) /\ Decoded(x) /\ HasLoaded(x)
        /\ LoadedFile(x).kind = "json"
        /\ Len(LoadedFile(x).data.entitlements) = 2
        /\ LoadedFile(x).data.entitlements[1] = LoadedFile(x).data.entitlements[2]
        /\ Len(w[x].response.operations) = 2
        /\ w[x].response.operations[1] = w[x].response.operations[2]

\* C4: for a readable snapshot with no record of subject.type "partner" and
\* subject.id P, the answer is SUCCESS with no operations.
C4_NoMatchIsSuccess ==
    \A x \in Workers :
        (/\ Done(x) /\ Decoded(x)
         /\ SelectedValue(HeadersOf(x)) # ""
         /\ HasLoaded(x) /\ LoadedFile(x).kind = "json"
         /\ \A k \in 1..Len(LoadedFile(x).data.entitlements) :
               LET e == LoadedFile(x).data.entitlements[k] IN
               ~(e.subject.type = "partner"
                    /\ e.subject.id = SelectedValue(HeadersOf(x))))
            => IsSuccessWith(w[x], <<>>)

\* C4 witness: the snapshot holds records, none of them of partner P1, and the
\* answer for P1 is SUCCESS with no operations.
C4_Witness ==
    \E x \in Workers :
        /\ Done(x) /\ Decoded(x) /\ partnerID[x] = "P1" /\ HasLoaded(x)
        /\ LoadedFile(x) = JsonFile(<<Entitlement("e4", "user", "P1", "admin"),
                                      Entitlement("e3", "partner", "P2", "read")>>)
        /\ IsSuccessWith(w[x], <<>>)

\* C5: every outcome for a decoded event is a structured result whose
\* actionStatus is SUCCESS or an error status, with the failure and error
\* fields set only when the status is not SUCCESS.
C5_StructuredStatus ==
    \A x \in Workers :
        (Done(x) /\ Decoded(x))
            => /\ w[x].kind = "json"
               /\ w[x].response.actionStatus \in {"SUCCESS", "FAILED", "ERROR"}
               /\ w[x].response.actionStatus = "SUCCESS" =>
                    /\ w[x].response.failureReason = ""
                    /\ w[x].response.failureDescription = ""
                    /\ w[x].response.errorMessage = ""
                    /\ w[x].response.errorDescription = ""

\* C6: a body that cannot be decoded is answered 400; the header is not
\* inspected, the file is not loaded, no actionStatus or operation is written.
C6_MalformedBodyIsRejected ==
    \A x \in Workers :
        (Done(x) /\ httpReq[x].method = "POST" /\ httpReq[x].body.kind # "json")
            => /\ w[x].code = 400
               /\ w[x].kind = "text"
               /\ w[x].response = ZeroResponse
               /\ ~inspected[x]
               /\ loads[x] = 0

\* C6 witness: a body json.Decoder rejects has been answered.
C6_Witness ==
    \E x \in Workers :
        Done(x) /\ httpReq[x] = HttpRequest("POST", GarbageBody) /\ w[x].code = 400

\* C7: two evaluations with the same additionalHeaders and the same snapshot
\* give the same answer, whatever their other fields.
C7_OnlyHeadersAndSnapshot ==
    \A x, y \in Workers :
        (/\ Done(x) /\ Decoded(x) /\ Done(y) /\ Decoded(y)
         /\ HeadersOf(x) = HeadersOf(y)
         /\ \/ ~HasLoaded(x) /\ ~HasLoaded(y)
            \/ HasLoaded(x) /\ HasLoaded(y) /\ LoadedFile(x) = LoadedFile(y))
            => w[x] = w[y]

\* C7 witness: two events that differ in every other field are answered alike,
\* with an add of a scope the second token already carries and that its empty
\* allowedOperations does not permit.
C7_Witness ==
    \E x, y \in Workers :
        /\ Done(x) /\ Done(y)
        /\ httpReq[x].body = JsonBody(MkRequest(Rest1, HeadersOf(x)))
        /\ httpReq[y].body = JsonBody(MkRequest(Rest2, HeadersOf(x)))
        /\ HasLoaded(x) /\ HasLoaded(y) /\ LoadedFile(x) = LoadedFile(y)
        /\ w[y].response.operations # <<>>
        /\ w[y].response.operations[1].value = "partner:read"
        /\ w[x] = w[y]

\* The next step of the handler of worker x.
HandlerStep(x) == Load(x) \/ Match(x) \/ Return(x)
CanAnswer ==
    server = "serving" =>
        \A x \in Workers :
            IF pc[x] = "idle"
            THEN ENABLED Begin(x, HttpRequest("POST", GarbageBody))
            ELSE ENABLED HandlerStep(x)

\* C8: no request ends the process: once serving, the service stays serving,
\* and every handler can take its next step and every idle worker a request.
C8_RequestsNeverTerminate ==
    [](CanAnswer) /\ [][server = "serving" => server' = "serving"]_vars

\* C8 witness: a request failed on the load of the file and the service serves.
C8_Witness ==
    /\ server = "serving"
    /\ Done("w1")
    /\ HasLoaded("w1") /\ LoadedFile("w1") = MissingFile
    /\ w["w1"].code = 500

\* C9: the partner identifier is the first value of the first entry, in order,
\* named exactly x-b2b-usp-partner with a non-empty value list; an empty
\* selected value ends the evaluation as if the header were absent.
C9_FirstValueOfFirstEntry ==
    \A x \in Workers :
        inspected[x]
            => /\ partnerID[x] = SelectedValue(HeadersOf(x))
               /\ SelectedValue(HeadersOf(x)) = "" => (Done(x) /\ loads[x] = 0)

\* C9 witness: an entry that differs in case and an entry without values are
\* passed over, and of the two values of the next entry the first is taken.
C9_Witness ==
    \E x \in Workers :
        /\ inspected[x]
        /\ Len(HeadersOf(x)) = 2
        /\ HeadersOf(x)[1] = [name |-> "X-B2B-USP-Partner", value |-> <<"P1">>]
        /\ HeadersOf(x)[2] = [name |-> HeaderKey, value |-> <<"P2", "">>]
        /\ partnerID[x] = "P2"

\* The answer computed from one content of the file for partner P.
AnswerFrom(file, P) ==
    IF file.kind = "json"
    THEN JsonEncoded(Response("SUCCESS",
                              ExpectedOperations(file.data.entitlements, P)))
    ELSE HttpError("Internal server error", 500)

\* What holds of every evaluation, however the others and the replacements of
\* the file interleave with it.
OneVersion(x) ==
    /\ loads[x] <= 1
    /\ loads[x] = 1 <=> HasLoaded(x)
    /\ HasLoaded(x) => startVer[x] <= loadVer[x] /\ loadVer[x] <= Len(versions)
    /\ pc[x] = "match" => HasLoaded(x) /\ entitlementsData[x] = LoadedFile(x).data
    /\ (Done(x) /\ HasLoaded(x)) => w[x] = AnswerFrom(LoadedFile(x), partnerID[x])
    /\ pc[x] # "idle" => ENABLED HandlerStep(x)

\* C10 (as stated): every evaluation performs exactly one load and answers from
\* that version alone, never from one older than the version on disk when it
\* started; no evaluation waits on another.
C10_Original ==
    \A x \in Workers :
        /\ OneVersion(x)
        /\ (Done(x) /\ Decoded(x)) => loads[x] = 1

\* C10 (amended): every evaluation performs at most one load, exactly one when
\* it extracted a non-empty partner identifier and none otherwise, and answers
\* from that version alone, never from one older than the version on disk
\* when it started; no evaluation waits on another.
C10_AtMostOneLoad ==
    \A x \in Workers :
        /\ OneVersion(x)
        /\ (Done(x) /\ Decoded(x)) =>
                (loads[x] = 1 <=> SelectedValue(HeadersOf(x)) # "")

\* C10 witness: two evaluations for the same partner, one that loaded before a
\* replacement and one that started after it, are answered from different
\* versions.
C10_Witness ==
    \E x, y \in Workers :
        /\ Done(x) /\ Done(y)
        /\ partnerID[x] = "P1" /\ partnerID[y] = "P1"
        /\ loadVer[x] = 1 /\ startVer[y] = 2 /\ loadVer[y] = 2
        /\ w[x].kind = "json" /\ w[y].kind = "json"
        /\ w[x] # w[y]

====
